---- MODULE Spec2Model ----
(***************************************************************************)
(* jupyterlab/__init__.py: the server-extension bootstrapper.              *)
(*                                                                         *)
(* The module body imports HERE and YARN_PATH from the sibling module      *)
(* jlpmapp, pushes them into three process-wide globals owned by           *)
(* jupyterlab_server (commands.HERE, commands.YARN_PATH, coreconfig.HERE)  *)
(* and then defines _jupyter_server_extension_paths.  Each statement of    *)
(* the module body is one step; a statement that raises ends the run,      *)
(* because the module has no try/except.                                   *)
(***************************************************************************)
EXTENDS Integers, Sequences, FiniteSets, TLC

\* Number of times the host runs the module body (import, re-import).
MaxLoads == 2

\* Python's None: the value of a name or global that has not been set.
None == "None"

\* Threads in which the host may execute the module body.
Threads == {1, 2}

\* The thread of the host's ordinary (serialised) import mechanism.
Main == 1

\* Values jlpmapp can resolve for its HERE attribute.
JlpmappHERE == {"/opt/app/share/pkg", "/srv/lab"}

\* Values jlpmapp can resolve for its YARN_PATH attribute.
JlpmappYARN_PATH == {"/opt/app/bin/pkgmgr", "/srv/lab/staging/yarn.js"}

\* The three setter calls of the module body, in source order.
Setters == {"set_here", "set_yarn_path", "set_config_here"}

\* The statements of the module body that can raise.
ImportErrs == {"import_HERE", "import_YARN_PATH"}

VARIABLES
    here,          \* jupyterlab_server.commands: global written by set_here
    yarn_path,     \* jupyterlab_server.commands: global written by set_yarn_path
    config_here,   \* jupyterlab_server.coreconfig: global written by set_here
    pc,            \* per thread: the statement of the module body to run next
    HERE,          \* per thread: the name HERE in the module namespace
    YARN_PATH,     \* per thread: the name YARN_PATH in the module namespace
    defined,       \* per thread: _jupyter_server_extension_paths is bound
    applied,       \* per thread: setter calls of this run that have returned
    err,           \* per thread: the statement at which this run raised
    before,        \* per thread: the three globals when this run started
    loads,         \* number of runs of the module body started so far
    log,           \* one record per run that finished without error
    ret,           \* what the last descriptor query returned
    observed       \* what the last reader of the three globals saw

collab == <<here, yarn_path, config_here>>

vars == <<here, yarn_path, config_here, pc, HERE, YARN_PATH, defined,
          applied, err, before, loads, log, ret, observed>>

Idle == {"unloaded", "loaded", "failed"}

Running == {"l11", "l12", "l14", "l15", "l16", "l18"}

Init ==
    /\ here \in JlpmappHERE \cup {None}
    /\ yarn_path \in JlpmappYARN_PATH \cup {None}
    /\ config_here \in JlpmappHERE \cup {None}
    /\ pc = [t \in Threads |-> "unloaded"]
    /\ HERE = [t \in Threads |-> None]
    /\ YARN_PATH = [t \in Threads |-> None]
    /\ defined = [t \in Threads |-> FALSE]
    /\ applied = [t \in Threads |-> {}]
    /\ err = [t \in Threads |-> "none"]
    /\ before = [t \in Threads |-> collab]
    /\ loads = 0
    /\ log = <<>>
    /\ ret = [called |-> FALSE, value |-> <<>>]
    /\ observed = [seen |-> FALSE, here |-> None, yarn_path |-> None,
                   config_here |-> None]

\* A statement of the module body raises: nothing catches it, the rest of
\* the body is skipped and the import fails.
Raise(t, stmt) ==
    /\ pc' = [pc EXCEPT ![t] = "failed"]
    /\ err' = [err EXCEPT ![t] = stmt]

\* Lines 6-9: the host starts executing the module body in a fresh
\* namespace.
Begin(t) ==
    /\ pc[t] \in Idle
    /\ loads < MaxLoads
    /\ loads' = loads + 1
    /\ pc' = [pc EXCEPT ![t] = "l11"]
    /\ HERE' = [HERE EXCEPT ![t] = None]
    /\ YARN_PATH' = [YARN_PATH EXCEPT ![t] = None]
    /\ defined' = [defined EXCEPT ![t] = FALSE]
    /\ applied' = [applied EXCEPT ![t] = {}]
    /\ err' = [err EXCEPT ![t] = "none"]
    /\ before' = [before EXCEPT ![t] = collab]
    /\ UNCHANGED <<here, yarn_path, config_here, log, ret, observed>>

\* Variant of line 11 with set_here(HERE) moved up, before YARN_PATH is
\* imported.
ImportHEREThenSet(t) ==
    /\ pc[t] = "l11"
    /\ \E h \in JlpmappHERE :
          /\ HERE' = [HERE EXCEPT ![t] = h]
          /\ here' = h
    /\ pc' = [pc EXCEPT ![t] = "l12"]
    /\ UNCHANGED <<yarn_path, config_here, YARN_PATH, defined, applied,
                   err, before, loads, log, ret, observed>>

\* Line 11: from .jlpmapp import HERE
ImportHERE(t) ==
    /\ pc[t] = "l11"
    /\ \E h \in JlpmappHERE : HERE' = [HERE EXCEPT ![t] = h]
    /\ pc' = [pc EXCEPT ![t] = "l12"]
    /\ UNCHANGED <<here, yarn_path, config_here, YARN_PATH, defined, applied,
                   err, before, loads, log, ret, observed>>

\* Variant of line 11 wrapped in try/except: the error is swallowed and the
\* body goes on with HERE unbound.
ImportHERERaisesCaught(t) ==
    /\ pc[t] = "l11"
    /\ pc' = [pc EXCEPT ![t] = "l12"]
    /\ err' = [err EXCEPT ![t] = "import_HERE"]
    /\ UNCHANGED <<here, yarn_path, config_here, HERE, YARN_PATH, defined,
                   applied, before, loads, log, ret, observed>>

\* Line 11 raises: jlpmapp could not resolve its paths.
ImportHERERaises(t) ==
    /\ pc[t] = "l11"
    /\ Raise(t, "import_HERE")
    /\ UNCHANGED <<here, yarn_path, config_here, HERE, YARN_PATH, defined,
                   applied, before, loads, log, ret, observed>>

\* Line 12: from .jlpmapp import YARN_PATH
ImportYARN_PATH(t) ==
    /\ pc[t] = "l12"
    /\ \E y \in JlpmappYARN_PATH : YARN_PATH' = [YARN_PATH EXCEPT ![t] = y]
    /\ pc' = [pc EXCEPT ![t] = "l14"]
    /\ UNCHANGED <<here, yarn_path, config_here, HERE, defined, applied,
                   err, before, loads, log, ret, observed>>

\* Line 12 raises.
ImportYARN_PATHRaises(t) ==
    /\ pc[t] = "l12"
    /\ Raise(t, "import_YARN_PATH")
    /\ UNCHANGED <<here, yarn_path, config_here, HERE, YARN_PATH, defined,
                   applied, before, loads, log, ret, observed>>

\* Variant of line 14 that registers the value only while none is set.
SetHereFirstWins(t) ==
    /\ pc[t] = "l14"
    /\ here' = IF here = None THEN HERE[t] ELSE here
    /\ applied' = [applied EXCEPT ![t] = @ \cup {"set_here"}]
    /\ pc' = [pc EXCEPT ![t] = "l15"]
    /\ UNCHANGED <<yarn_path, config_here, HERE, YARN_PATH, defined, err,
                   before, loads, log, ret, observed>>

\* Variant of line 14 that clears the value when it is registered again.
SetHereToggle(t) ==
    /\ pc[t] = "l14"
    /\ here' = IF here = HERE[t] THEN None ELSE HERE[t]
    /\ applied' = [applied EXCEPT ![t] = @ \cup {"set_here"}]
    /\ pc' = [pc EXCEPT ![t] = "l15"]
    /\ UNCHANGED <<yarn_path, config_here, HERE, YARN_PATH, defined, err,
                   before, loads, log, ret, observed>>

\* Variant of line 14 that registers both base directories in one call.
SetHereBoth(t) ==
    /\ pc[t] = "l14"
    /\ here' = HERE[t]
    /\ config_here' = HERE[t]
    /\ applied' = [applied EXCEPT ![t] = @ \cup {"set_here"}]
    /\ pc' = [pc EXCEPT ![t] = "l15"]
    /\ UNCHANGED <<yarn_path, HERE, YARN_PATH, defined, err,
                   before, loads, log, ret, observed>>

\* Line 14: set_here(HERE)
SetHere(t) ==
    /\ pc[t] = "l14"
    /\ here' = HERE[t]
    /\ applied' = [applied EXCEPT ![t] = @ \cup {"set_here"}]
    /\ pc' = [pc EXCEPT ![t] = "l15"]
    /\ UNCHANGED <<yarn_path, config_here, HERE, YARN_PATH, defined, err,
                   before, loads, log, ret, observed>>

\* Line 14 raises inside the collaborator, which may or may not have
\* stored the value before raising.
SetHereRaises(t) ==
    /\ pc[t] = "l14"
    /\ here' \in {here, HERE[t]}
    /\ Raise(t, "set_here")
    /\ UNCHANGED <<yarn_path, config_here, HERE, YARN_PATH, defined, applied,
                   before, loads, log, ret, observed>>

\* Variant of line 15 with the call left out.
SetYarnPathSkipped(t) ==
    /\ pc[t] = "l15"
    /\ applied' = [applied EXCEPT ![t] = @ \cup {"set_yarn_path"}]
    /\ pc' = [pc EXCEPT ![t] = "l16"]
    /\ UNCHANGED <<here, yarn_path, config_here, HERE, YARN_PATH, defined,
                   err, before, loads, log, ret, observed>>

\* Line 15: set_yarn_path(YARN_PATH)
SetYarnPath(t) ==
    /\ pc[t] = "l15"
    /\ yarn_path' = YARN_PATH[t]
    /\ applied' = [applied EXCEPT ![t] = @ \cup {"set_yarn_path"}]
    /\ pc' = [pc EXCEPT ![t] = "l16"]
    /\ UNCHANGED <<here, config_here, HERE, YARN_PATH, defined, err,
                   before, loads, log, ret, observed>>

\* Variant of line 15 wrapped in try/except: the error is swallowed and the
\* body goes on.
SetYarnPathRaisesCaught(t) ==
    /\ pc[t] = "l15"
    /\ pc' = [pc EXCEPT ![t] = "l16"]
    /\ err' = [err EXCEPT ![t] = "set_yarn_path"]
    /\ UNCHANGED <<here, yarn_path, config_here, HERE, YARN_PATH, defined,
                   applied, before, loads, log, ret, observed>>

\* Line 15 raises.
SetYarnPathRaises(t) ==
    /\ pc[t] = "l15"
    /\ yarn_path' \in {yarn_path, YARN_PATH[t]}
    /\ Raise(t, "set_yarn_path")
    /\ UNCHANGED <<here, config_here, HERE, YARN_PATH, defined, applied,
                   before, loads, log, ret, observed>>

\* Variant of line 16 that passes the wrong name.
SetConfigHereWrongArg(t) ==
    /\ pc[t] = "l16"
    /\ config_here' = YARN_PATH[t]
    /\ applied' = [applied EXCEPT ![t] = @ \cup {"set_config_here"}]
    /\ pc' = [pc EXCEPT ![t] = "l18"]
    /\ UNCHANGED <<here, yarn_path, HERE, YARN_PATH, defined, err,
                   before, loads, log, ret, observed>>

\* Line 16: set_config_here(HERE)
SetConfigHere(t) ==
    /\ pc[t] = "l16"
    /\ config_here' = HERE[t]
    /\ applied' = [applied EXCEPT ![t] = @ \cup {"set_config_here"}]
    /\ pc' = [pc EXCEPT ![t] = "l18"]
    /\ UNCHANGED <<here, yarn_path, HERE, YARN_PATH, defined, err,
                   before, loads, log, ret, observed>>

\* Line 16 raises.
SetConfigHereRaises(t) ==
    /\ pc[t] = "l16"
    /\ config_here' \in {config_here, HERE[t]}
    /\ Raise(t, "set_config_here")
    /\ UNCHANGED <<here, yarn_path, HERE, YARN_PATH, defined, applied,
                   before, loads, log, ret, observed>>

\* Line 18: the def statement binds the descriptor function; it is the last
\* statement, so the module has finished loading.
DefinePaths(t) ==
    /\ pc[t] = "l18"
    /\ defined' = [defined EXCEPT ![t] = TRUE]
    /\ pc' = [pc EXCEPT ![t] = "loaded"]
    /\ log' = Append(log, [HERE |-> HERE[t], YARN_PATH |-> YARN_PATH[t],
                           here |-> here, yarn_path |-> yarn_path,
                           config_here |-> config_here])
    /\ UNCHANGED <<here, yarn_path, config_here, HERE, YARN_PATH, applied,
                   err, before, loads, ret, observed>>

\* Variant of line 19 that names the companion package.
DescriptorWrongName == <<[module |-> "jupyterlab_server"]>>

\* Line 19: the value of the return expression, a fresh list every call.
Descriptor == <<[module |-> "jupyterlab"]>>

\* Variant of lines 18-19 in which the query resets the base directory.
QueryDescriptorResets(t) ==
    /\ defined[t]
    /\ ret' = [called |-> TRUE, value |-> Descriptor]
    /\ here' = None
    /\ UNCHANGED <<yarn_path, config_here, pc, HERE, YARN_PATH, defined,
                   applied, err, before, loads, log, observed>>

\* Lines 18-19: the host calls _jupyter_server_extension_paths().
QueryDescriptor(t) ==
    /\ defined[t]
    /\ ret' = [called |-> TRUE, value |-> Descriptor]
    /\ UNCHANGED <<here, yarn_path, config_here, pc, HERE, YARN_PATH, defined,
                   applied, err, before, loads, log, observed>>

\* Another component of the host reads the three globals.
QueryConfig ==
    /\ observed' = [seen |-> TRUE, here |-> here, yarn_path |-> yarn_path,
                    config_here |-> config_here]
    /\ UNCHANGED <<here, yarn_path, config_here, pc, HERE, YARN_PATH, defined,
                   applied, err, before, loads, log, ret>>

\* One statement of the module body, executed by thread t.
Step(t) ==
    \/ ImportHERE(t)
    \/ ImportHERERaises(t)
    \/ ImportYARN_PATH(t)
    \/ ImportYARN_PATHRaises(t)
    \/ SetHere(t)
    \/ SetHereRaises(t)
    \/ SetYarnPath(t)
    \/ SetYarnPathRaises(t)
    \/ SetConfigHere(t)
    \/ SetConfigHereRaises(t)
    \/ DefinePaths(t)

\* The host as the spec describes it: single-threaded, one run of the module
\* body at a time.
Next ==
    \/ Begin(Main)
    \/ Step(Main)
    \/ QueryDescriptor(Main)
    \/ QueryConfig

Spec == Init /\ [][Next]_vars

\* A host that runs the module body in several threads at once; only the
\* loads are of interest, so the queries are left out.
NextConc ==
    \/ \E t \in Threads : Begin(t)
    \/ \E t \in Threads : Step(t)

SpecConc == Init /\ [][NextConc]_vars

TypeOK ==
    /\ here \in JlpmappHERE \cup {None}
    /\ yarn_path \in JlpmappYARN_PATH \cup {None}
    /\ config_here \in JlpmappHERE \cup {None}
    /\ pc \in [Threads -> Idle \cup Running]
    /\ HERE \in [Threads -> JlpmappHERE \cup {None}]
    /\ YARN_PATH \in [Threads -> JlpmappYARN_PATH \cup {None}]
    /\ defined \in [Threads -> BOOLEAN]
    /\ applied \in [Threads -> SUBSET Setters]
    /\ err \in [Threads -> {"none"} \cup ImportErrs \cup Setters]
    /\ loads \in 0..MaxLoads
    /\ Len(log) <= loads

(***************************************************************************)
(* Properties                                                              *)
(***************************************************************************)

\* The three globals hold exactly what run t resolved.
Registered(t) ==
    /\ HERE[t] \in JlpmappHERE
    /\ YARN_PATH[t] \in JlpmappYARN_PATH
    /\ here = HERE[t]
    /\ yarn_path = YARN_PATH[t]
    /\ config_here = HERE[t]

\* C1: every descriptor query returns a sequence of exactly one record whose
\* module field is 'jupyterlab', whatever queries and loads came before.
C1_DescriptorIsJupyterlab ==
    ret.called =>
        /\ Len(ret.value) = 1
        /\ "module" \in DOMAIN ret.value[1]
        /\ ret.value[1].module = "jupyterlab"

C1_Witness ==
    /\ ret.called
    /\ pc[Main] = "loaded"
    /\ Len(log) >= 2

\* C2: when the module body has run to its end, commands.HERE and
\* coreconfig.HERE both equal the HERE this run imported and
\* commands.YARN_PATH equals the YARN_PATH it imported.
C2_LoadedMeansRegistered ==
    pc[Main] = "loaded" =>
        /\ here = HERE[Main]
        /\ config_here = HERE[Main]
        /\ yarn_path = YARN_PATH[Main]

C2_Witness ==
    /\ pc[Main] = "loaded"
    /\ before[Main][1] # here
    /\ before[Main][2] # yarn_path
    /\ before[Main][3] # config_here
    /\ before[Main][1] # before[Main][3]

\* C3: a run in which an import from jlpmapp raised has failed and never
\* bound the descriptor function; whenever the descriptor function is bound,
\* all three setter calls of that run have returned and the globals hold the
\* resolved values.
C3_NeverActiveMisconfigured ==
    /\ err[Main] \in ImportErrs => (pc[Main] = "failed" /\ ~defined[Main])
    /\ pc[Main] = "failed" => ~defined[Main]
    /\ defined[Main] => (applied[Main] = Setters /\ Registered(Main))

C3_Witness ==
    /\ defined[Main]
    /\ loads >= 2
    /\ Len(log) = 1
    /\ before[Main] # collab

\* The setter calls that precede statement e of the module body.
CallsBefore(e) ==
    CASE e \in ImportErrs \cup {"set_here"} -> {}
      [] e = "set_yarn_path" -> {"set_here"}
      [] e = "set_config_here" -> {"set_here", "set_yarn_path"}
      [] OTHER -> Setters

\* C4 as stated: a run that has ended has applied either all three
\* registrations (and loaded) or none of them.
C4_NoPartialRegistration ==
    pc[Main] \in {"loaded", "failed"} =>
        /\ pc[Main] = "loaded" => applied[Main] = Setters
        /\ applied[Main] \in {{}, Setters}

\* C4 amended: a run ends loaded with all three registrations applied, or
\* failed; a failed run has applied exactly the setter calls that precede the
\* statement that raised, and the globals of the calls it never reached are
\* as they were when the run started.
C4_FailedRunKeepsPrefix ==
    /\ pc[Main] = "loaded" => (err[Main] = "none" /\ applied[Main] = Setters)
    /\ pc[Main] = "failed" =>
        /\ err[Main] # "none"
        /\ applied[Main] = CallsBefore(err[Main])
        /\ "set_here" \in applied[Main] => here = HERE[Main]
        /\ "set_yarn_path" \in applied[Main] => yarn_path = YARN_PATH[Main]
        /\ err[Main] \in ImportErrs => here = before[Main][1]
        /\ err[Main] \in ImportErrs \cup {"set_here"} =>
               yarn_path = before[Main][2]
        /\ err[Main] # "set_config_here" => config_here = before[Main][3]

C4_Witness ==
    /\ pc[Main] = "failed"
    /\ err[Main] = "set_config_here"
    /\ applied[Main] = {"set_here", "set_yarn_path"}
    /\ here # before[Main][1]
    /\ config_here = before[Main][3]
    /\ config_here # HERE[Main]

\* C5: two successful runs that resolved the same HERE and YARN_PATH leave
\* the three globals in the same state.
C5_ReinitIdempotent ==
    \A i, j \in 1..Len(log) :
        (log[i].HERE = log[j].HERE /\ log[i].YARN_PATH = log[j].YARN_PATH) =>
            /\ log[j].here = log[i].here
            /\ log[j].yarn_path = log[i].yarn_path
            /\ log[j].config_here = log[i].config_here

C5_Witness ==
    /\ Len(log) >= 2
    /\ log[1].HERE = log[2].HERE
    /\ log[1].YARN_PATH = log[2].YARN_PATH

\* C6: a reader of the three globals that runs while the module is loaded
\* sees the values this load registered, never an unregistered one.
C6_SetBeforeQueried ==
    [][(QueryConfig /\ pc[Main] = "loaded") =>
         /\ observed'.here = HERE[Main]
         /\ observed'.yarn_path = YARN_PATH[Main]
         /\ observed'.config_here = HERE[Main]
         /\ observed'.here # None
         /\ observed'.yarn_path # None]_vars

C6_Witness ==
    /\ observed.seen
    /\ pc[Main] = "loaded"
    /\ observed.here = HERE[Main]
    /\ observed.yarn_path = YARN_PATH[Main]
    /\ observed.here # before[Main][1]
    /\ observed.yarn_path # before[Main][2]

\* C7: a step taken while no run of the module body is in progress and that
\* starts none (a descriptor query, a read of the globals) leaves the three
\* globals unchanged.
C7_ReadOnlyAfterInit ==
    [][(loads' = loads /\ \A t \in Threads : pc[t] \in Idle) =>
         UNCHANGED <<here, yarn_path, config_here>>]_vars

C7_Witness ==
    /\ pc[Main] = "loaded"
    /\ ret.called
    /\ observed.seen
    /\ observed.here = here
    /\ here # before[Main][1]

\* C8: of two consecutive successful runs that resolved different values, the
\* later one wins: the globals hold its values and none of the earlier run's.
C8_LaterCallWins ==
    \A i \in 1..(Len(log) - 1) :
        (log[i].HERE # log[i+1].HERE \/ log[i].YARN_PATH # log[i+1].YARN_PATH)
        =>
            /\ log[i+1].here = log[i+1].HERE
            /\ log[i+1].config_here = log[i+1].HERE
            /\ log[i+1].yarn_path = log[i+1].YARN_PATH
            /\ log[i].HERE # log[i+1].HERE =>
                   (log[i+1].here # log[i].HERE
                    /\ log[i+1].config_here # log[i].HERE)
            /\ log[i].YARN_PATH # log[i+1].YARN_PATH =>
                   log[i+1].yarn_path # log[i].YARN_PATH

C8_Witness ==
    /\ Len(log) >= 2
    /\ log[1].HERE # log[2].HERE
    /\ log[1].YARN_PATH # log[2].YARN_PATH
    /\ log[1].here = log[1].HERE

\* The number of the three globals that a step changes.
Changed ==
    Cardinality({i \in 1..3 : collab[i] # collab'[i]})

\* C9: under concurrent loads each setter call is a step of its own: a step
\* changes at most one of the three globals, and a thread that completes a
\* setter call leaves its own value there, so the globals can end up mixed.
C9_SettersInterleave ==
    [][/\ Changed <= 1
       /\ \A t \in Threads :
            /\ (pc[t] = "l14" /\ pc'[t] = "l15") => here' = HERE[t]
            /\ (pc[t] = "l15" /\ pc'[t] = "l16") => yarn_path' = YARN_PATH[t]
            /\ (pc[t] = "l16" /\ pc'[t] = "l18") => config_here' = HERE[t]
      ]_vars

C9_Witness ==
    /\ \A t \in Threads : pc[t] = "loaded" /\ err[t] = "none"
    /\ loads = 2
    /\ HERE[1] # HERE[2]
    /\ here = HERE[1]
    /\ config_here = HERE[2]

\* C10: a run that failed in one of the two imports from jlpmapp has made no
\* setter call, and the three globals are as they were when it started.
C10_ImportFailureTouchesNothing ==
    (pc[Main] = "failed" /\ err[Main] \in ImportErrs) =>
        /\ applied[Main] = {}
        /\ collab = before[Main]

C10_Witness ==
    /\ pc[Main] = "failed"
    /\ err[Main] = "import_YARN_PATH"
    /\ Len(log) = 1
    /\ HERE[Main] \in JlpmappHERE
    /\ HERE[Main] # here
    /\ HERE[Main] # config_here

====
